---- MODULE Spec2Model ----
(***************************************************************************)
(* A model of the N64 emulator core of src/program.py: Memory, VR4300CPU,  *)
(* RSP, RDP, AudioSystem, InputManager and N64Emulator.                    *)
(*                                                                         *)
(* Scaling.  The program works on 8-bit bytes, 32-bit words and 32-bit     *)
(* addresses, which do not fit TLC's integers.  The model keeps the shape  *)
(* of every computation and scales the byte: a byte has ByteBits bits, a   *)
(* word is 4 bytes (WordBits = 4 * ByteBits), an instruction keeps its     *)
(* 6-bit opcode in the top bits of the word and its jump target in the     *)
(* remaining WordBits - 6 bits, and the top 4 bits of an address are the   *)
(* segment that a jump preserves (0xF0000000 in the source).  With         *)
(* ByteBits = 8 every definition below is the source's.                    *)
(***************************************************************************)
EXTENDS Integers, Sequences, FiniteSets, TLC

(***************************************************************************)
(* Bounds of the model.                                                    *)
(***************************************************************************)
ByteBits == 4        \* bits of a byte (8 in the program)
RamWords == 2        \* words of RDRAM (8 MB / 4 in the program)
FbBytes == 2         \* bytes of the RDP framebuffer (640*480*4 in the program)
MaxSteps == 3        \* instructions executed in one behaviour

(***************************************************************************)
(* Program constants.                                                      *)
(***************************************************************************)
NumRegs == 32                       \* VR4300CPU.regs
RspNumRegs == 32                    \* RSP.regs
NumControllers == 4                 \* InputManager(num_controllers=4)
OpcodeBits == 6                     \* (instr >> 26) & 0x3F

ByteMod == 2 ^ ByteBits
WordBits == 4 * ByteBits
WordMod == 2 ^ WordBits
TargetBits == WordBits - OpcodeBits           \* 26: instr & 0x03FFFFFF
TargetMod == 2 ^ TargetBits
SegSize == 2 ^ (WordBits - 4)                 \* 0x10000000
SegMask == 15 * SegSize                       \* 0xF0000000
RamSize == 4 * RamWords                       \* Memory(size_bytes=8*1024*1024)
CartridgeBase == SegSize                      \* 0x10000000
EntryVector == 10 * SegSize + 4 * 2 ^ (WordBits - 8) + 64   \* 0xA4000040

(***************************************************************************)
(* Python primitives used by the program.                                  *)
(***************************************************************************)
\* Normalisation of a slice index against a sequence of length n.
Clamp(i, n) ==
  IF i < 0 THEN (IF i + n < 0 THEN 0 ELSE i + n)
  ELSE (IF i > n THEN n ELSE i)

\* s[lo:hi]
PySlice(s, lo, hi) ==
  LET a == Clamp(lo, Len(s))
      b == Clamp(hi, Len(s))
  IN IF a < b THEN SubSeq(s, a + 1, b) ELSE << >>

\* s[lo:hi] = new, on a bytearray: the slice is replaced, whatever its length.
PySliceAssign(s, lo, hi, new) ==
  LET a == Clamp(lo, Len(s))
      b == Clamp(hi, Len(s))
      e == IF b < a THEN a ELSE b
  IN SubSeq(s, 1, a) \o new \o SubSeq(s, e + 1, Len(s))

\* int.from_bytes(bs, 'big'), of any number of bytes.
RECURSIVE FromBytes(_)
FromBytes(bs) ==
  IF bs = << >> THEN 0
  ELSE FromBytes(SubSeq(bs, 1, Len(bs) - 1)) * ByteMod + bs[Len(bs)]

\* value.to_bytes(4, 'big') raises OverflowError outside [0, 2^32).
ToBytesFits(v) == v >= 0 /\ v < WordMod

\* value.to_bytes(4, 'big')
ToBytes(v) ==
  << (v \div (ByteMod * ByteMod * ByteMod)) % ByteMod,
     (v \div (ByteMod * ByteMod)) % ByteMod,
     (v \div ByteMod) % ByteMod,
     v % ByteMod >>

\* x & y on non-negative integers.
RECURSIVE BitAnd(_, _)
BitAnd(x, y) ==
  IF x = 0 \/ y = 0 THEN 0
  ELSE 2 * BitAnd(x \div 2, y \div 2) + (IF x % 2 = 1 /\ y % 2 = 1 THEN 1 ELSE 0)

\* x | y on non-negative integers.
RECURSIVE BitOr(_, _)
BitOr(x, y) ==
  IF x = 0 THEN y
  ELSE IF y = 0 THEN x
  ELSE 2 * BitOr(x \div 2, y \div 2) + (IF x % 2 = 1 \/ y % 2 = 1 THEN 1 ELSE 0)

Zeros(n) == [i \in 1..n |-> 0]

(***************************************************************************)
(* State.                                                                  *)
(***************************************************************************)
VARIABLES
  ram,            \* Memory.ram, a sequence of bytes
  rom,            \* Memory.rom: NoRom before load_cartridge, Rom(bytes) after
  regs,           \* VR4300CPU.regs, indexed 0..31
  pc,             \* VR4300CPU.pc
  cp0,            \* VR4300CPU.cp0, a dict (a set of key/value pairs)
  rsp_regs,       \* RSP.regs
  framebuffer,    \* RDP.framebuffer
  audio_buffer,   \* AudioSystem.audio_buffer
  running,        \* N64Emulator.running
  paused,         \* N64Emulator.paused
  files,          \* the "<slot>.state" files: slot -> snapshot or NoFile
  lpos,           \* position of the context running start()
  instr,          \* the instruction fetched by the step in flight in start()
  lastOp,         \* the last call made and its arguments
  err,            \* exception raised by the last call, or "none"
  ret,            \* value returned by the last read32
  steps,          \* instructions executed so far
  hist            \* history of the loop: see LoopHist

machine == << ram, rom, regs, pc, cp0, rsp_regs, framebuffer, audio_buffer >>
control == << running, paused >>
loopvars == << lpos, instr, hist >>
vars == << ram, rom, regs, pc, cp0, rsp_regs, framebuffer, audio_buffer,
           running, paused, files, lpos, instr, lastOp, err, ret, steps, hist >>

\* Memory.rom before load_cartridge sets it, and after.
NoRom == [has |-> FALSE]
Rom(data) == [has |-> TRUE, data |-> data]

\* A slot without a file, and one with the pickled dict.
NoFile == [exists |-> FALSE]
File(state) == [exists |-> TRUE, state |-> state]

\* No value returned (None).
NoRet == 0 - 1


(***************************************************************************)
(* Memory                                                                  *)
(***************************************************************************)
\* Memory.__init__: bytearray(size_bytes)
Memory_init == Zeros(RamSize)

\* Memory.load_cartridge(rom_data): the new value of Memory.rom
load_cartridge(rom_data) == Rom(rom_data)

\* read32 with the cartridge mapped right after the RAM.
read32_after_ram(ram_, rom_, address) ==
  IF address < Len(ram_)
    THEN [err |-> "none", val |-> FromBytes(PySlice(ram_, address, address + 4))]
    ELSE IF ~rom_.has
      THEN [err |-> "AttributeError", val |-> NoRet]
      ELSE LET off == address - Len(ram_)
           IN [err |-> "none", val |-> FromBytes(PySlice(rom_.data, off, off + 4))]

\* Memory.read32(address): [err, val]
read32(ram_, rom_, address) ==
  IF address < Len(ram_)
    THEN [err |-> "none", val |-> FromBytes(PySlice(ram_, address, address + 4))]
    ELSE IF ~rom_.has
      THEN [err |-> "AttributeError", val |-> NoRet]
      ELSE LET off == address - CartridgeBase
           IN [err |-> "none", val |-> FromBytes(PySlice(rom_.data, off, off + 4))]

\* Memory.write32(address, value): [err, ram]
\* write32 that raises for an address that is not in the RAM.
write32_strict(ram_, address, value) ==
  IF address < Len(ram_)
    THEN IF ToBytesFits(value)
           THEN [err |-> "none",
                 ram |-> PySliceAssign(ram_, address, address + 4,
                                       ToBytes(value))]
           ELSE [err |-> "OverflowError", ram |-> ram_]
    ELSE [err |-> "AddressError", ram |-> ram_]

write32(ram_, address, value) ==
  IF address < Len(ram_)
    THEN IF ToBytesFits(value)
      THEN [err |-> "none",
            ram |-> PySliceAssign(ram_, address, address + 4, ToBytes(value))]
      ELSE [err |-> "OverflowError", ram |-> ram_]
    ELSE [err |-> "none", ram |-> ram_]

\* Memory.reset(): the new value of Memory.ram
Memory_reset(ram_) == Zeros(Len(ram_))

(***************************************************************************)
(* VR4300CPU                                                               *)
(***************************************************************************)
\* VR4300CPU.__init__
CPU_init == [regs |-> [i \in 0..(NumRegs - 1) |-> 0], pc |-> 0, cp0 |-> << >>]

\* CPU_reset with the entry point also put in register 0.
CPU_reset_r0(cp0_) ==
  [regs |-> [i \in 0..(NumRegs - 1) |-> IF i = 0 THEN EntryVector ELSE 0],
   pc |-> EntryVector, cp0 |-> cp0_]

\* VR4300CPU.reset(): cp0 is left as it is
CPU_reset(cp0_) ==
  [regs |-> [i \in 0..(NumRegs - 1) |-> 0], pc |-> EntryVector, cp0 |-> cp0_]

\* opcode = (instr >> 26) & 0x3F
Opcode(instr_) == BitAnd(instr_ \div TargetMod, 2 ^ OpcodeBits - 1)

\* target = instr & 0x03FFFFFF
Target(instr_) == BitAnd(instr_, TargetMod - 1)

\* VR4300CPU._execute(instr): the new pc (no branch of it writes a register)
\* _execute that keeps the low bits of the pc in a jump.
execute_keep_low(pc_, instr_) ==
  IF Opcode(instr_) = 2 \/ Opcode(instr_) = 3
    THEN BitOr(pc_, Target(instr_) * 4)
    ELSE pc_

execute(pc_, instr_) ==
  IF Opcode(instr_) = 0 THEN pc_
  ELSE IF Opcode(instr_) = 2 \/ Opcode(instr_) = 3
    THEN BitOr(BitAnd(pc_, SegMask), Target(instr_) * 4)
    ELSE pc_

\* VR4300CPU.execute_next_instruction(): [err, pc]
\* execute_next_instruction that advances the pc by one.
execute_next_instruction_by1(ram_, rom_, pc_) ==
  LET r == read32(ram_, rom_, pc_)
  IN IF r.err # "none" THEN [err |-> r.err, pc |-> pc_]
     ELSE [err |-> "none", pc |-> execute(pc_ + 1, r.val)]

execute_next_instruction(ram_, rom_, pc_) ==
  LET r == read32(ram_, rom_, pc_)
  IN IF r.err # "none" THEN [err |-> r.err, pc |-> pc_]
     ELSE [err |-> "none", pc |-> execute(pc_ + 4, r.val)]

\* CPU_get_state without the pc (it is saved as 0).
CPU_get_state_nopc(regs_, pc_, cp0_) == [regs |-> regs_, pc |-> 0, cp0 |-> cp0_]

\* VR4300CPU.get_state()
CPU_get_state(regs_, pc_, cp0_) == [regs |-> regs_, pc |-> pc_, cp0 |-> cp0_]

\* VR4300CPU.set_state(state)
CPU_set_state(state) == [regs |-> state.regs, pc |-> state.pc, cp0 |-> state.cp0]

(***************************************************************************)
(* RSP, RDP, AudioSystem, InputManager                                     *)
(***************************************************************************)
\* RSP.__init__ and RSP.reset()
RSP_reset == [i \in 0..(RspNumRegs - 1) |-> 0]

\* RSP.get_state()
RSP_get_state(rsp_regs_) == [regs |-> rsp_regs_]

\* RSP.set_state(state)
RSP_set_state(state) == state.regs

\* RDP.__init__: bytearray(640*480*4)
RDP_init == Zeros(FbBytes)

\* RDP.reset(): bytearray(len(self.framebuffer))
RDP_reset(framebuffer_) == Zeros(Len(framebuffer_))

\* RDP.get_state()
RDP_get_state(framebuffer_) == [framebuffer |-> framebuffer_]

\* RDP.set_state(state): an empty framebuffer in the snapshot is skipped
RDP_set_state(framebuffer_, state) ==
  IF Len(state.framebuffer) > 0
    THEN PySliceAssign(framebuffer_, 0, Len(framebuffer_), state.framebuffer)
    ELSE framebuffer_

\* AudioSystem.reset()
Audio_reset == << >>

\* AudioSystem.get_state()
Audio_get_state(audio_buffer_) == [audio_buffer |-> audio_buffer_]

\* AudioSystem.set_state(state)
Audio_set_state(state) == state.audio_buffer

\* InputManager.get_state(): no code changes a controller
Input_get_state ==
  [i \in 1..NumControllers |-> [buttons |-> 0, x |-> 0, y |-> 0]]

(***************************************************************************)
(* N64Emulator: construction, load_rom, reset, save_state, load_state,     *)
(* apply_cheat.                                                            *)
(***************************************************************************)
\* N64Emulator._ensure_big_endian(data)
ensure_big_endian(data) == data

\* N64Emulator.reset(): the CPU, RSP, RDP and audio are reset; the memory is not
Emu_reset(cp0_, framebuffer_) ==
  [cpu |-> CPU_reset(cp0_), rsp_regs |-> RSP_reset,
   framebuffer |-> RDP_reset(framebuffer_), audio_buffer |-> Audio_reset]

\* The order in which load_state reads the sections of a snapshot.
Sections == << "cpu", "rsp", "rdp", "audio", "memory", "controllers" >>

\* N64Emulator.save_state(slot_name): the dict that is pickled into the file
save_state(regs_, pc_, cp0_, rsp_regs_, framebuffer_, audio_buffer_, ram_) ==
  [cpu |-> CPU_get_state(regs_, pc_, cp0_),
   rsp |-> RSP_get_state(rsp_regs_),
   rdp |-> RDP_get_state(framebuffer_),
   audio |-> Audio_get_state(audio_buffer_),
   memory |-> ram_,
   controllers |-> Input_get_state]

\* What a "<slot>.state" file holds when load_state opens it: the file save_state
\* wrote, or that file damaged (not a pickle at all, a dict without one of its
\* sections, a RAM image shorter by one word).
Variants ==
  { "intact", "garbage", "no_cpu", "no_rsp", "no_memory", "no_controllers",
    "short_ram" }

\* pickle.load(f) of the file under a variant: [ok, keys, val]
ReadFile(file, variant) ==
  LET all == { Sections[i] : i \in 1..Len(Sections) }
  IN [ok |-> variant # "garbage",
      keys |-> CASE variant = "no_cpu" -> all \ {"cpu"}
                 [] variant = "no_rsp" -> all \ {"rsp"}
                 [] variant = "no_memory" -> all \ {"memory"}
                 [] variant = "no_controllers" -> all \ {"controllers"}
                 [] OTHER -> all,
      val |-> IF variant = "short_ram"
                THEN [file EXCEPT !.memory = PySlice(file.memory, 0, Len(file.memory) - 4)]
                ELSE file]

\* N64Emulator.load_state(slot_name), from the unpickled dict on: the sections
\* are applied in order and a missing one raises KeyError where it is read.
load_state(cur, state) ==
  LET k1 == "cpu" \in state.keys
      k2 == k1 /\ "rsp" \in state.keys
      k3 == k2 /\ "rdp" \in state.keys
      k4 == k3 /\ "audio" \in state.keys
      k5 == k4 /\ "memory" \in state.keys
      k6 == k5 /\ "controllers" \in state.keys
      cpu == CPU_set_state(state.val.cpu)
  IN [regs |-> IF k1 THEN cpu.regs ELSE cur.regs,
      pc |-> IF k1 THEN cpu.pc ELSE cur.pc,
      cp0 |-> IF k1 THEN cpu.cp0 ELSE cur.cp0,
      rsp_regs |-> IF k2 THEN RSP_set_state(state.val.rsp) ELSE cur.rsp_regs,
      framebuffer |-> IF k3 THEN RDP_set_state(cur.framebuffer, state.val.rdp)
                      ELSE cur.framebuffer,
      audio_buffer |-> IF k4 THEN Audio_set_state(state.val.audio)
                       ELSE cur.audio_buffer,
      ram |-> IF k5 THEN PySliceAssign(cur.ram, 0, Len(cur.ram), state.val.memory)
              ELSE cur.ram,
      err |-> IF k6 THEN "none" ELSE "KeyError"]

\* N64Emulator.apply_cheat(address, value): [err, ram]
apply_cheat(ram_, address, value) == write32(ram_, address, value)

(***************************************************************************)
(* Inputs.                                                                 *)
(***************************************************************************)
\* An absolute jump (opcode 2) to word 0 of the segment.
JumpWord == 2 * TargetMod

\* A word of four different bytes; its opcode is neither 0 nor a jump.
TestWord == FromBytes(<< 1, 2, 3, ByteMod - 1 >>)

Words == { 0, JumpWord, TestWord }

\* A cartridge of two words, and one whose length is not a multiple of 4.
RomA == ToBytes(JumpWord) \o ToBytes(TestWord)
RomB == << 1, 2, 3, 4, 5 >>
Roms == { RomA, RomB }
MaxRomLen == Len(RomA)

\* A jump word of opcode op (2 or 3) and raw target t.
Jump(op, t) == op * TargetMod + t

\* A cartridge as long as a segment of the address space: jumps in its first
\* and in its last word (the last word of the segment after the cartridge
\* base), zeros between them.
RomSeg ==
  [i \in 1..SegSize |->
     IF i <= 4 THEN ToBytes(Jump(2, 1))[i]
     ELSE IF i > SegSize - 4
       THEN ToBytes(Jump(3, TargetMod - 1))[i - (SegSize - 4)]
       ELSE 0]

\* Values of the program counter that stepping reaches: the first and the last
\* word of the first segment, the first and the last word of the segment of
\* the cartridge, the entry vector, the last word of the address space.
PcInputs ==
  { 0, SegSize - 4, CartridgeBase, CartridgeBase + SegSize - 4, EntryVector,
    WordMod - 4 }

Slots == { "slot1" }

\* Addresses written: RAM (first word, last word, across the end of the RAM),
\* the first address after the RAM, the first address of the cartridge.
WriteAddrs == { 0, RamSize - 4, RamSize - 2, RamSize, CartridgeBase }

\* Addresses read: those, the addresses below the cartridge base, each address
\* of the cartridge and after it, and the last word of the address space.
ReadAddrs ==
  WriteAddrs \cup { CartridgeBase - 8, CartridgeBase - 3 }
             \cup { CartridgeBase + o : o \in 0..MaxRomLen }
             \cup { WordMod - 4 }

\* The record kept of the last call.
Op(name, addr, val, slot, variant, prev) ==
  [name |-> name, addr |-> addr, val |-> val, slot |-> slot,
   variant |-> variant, prev |-> prev]
NoArg == NoRet
NoName == "-"
Call(name) == Op(name, NoArg, NoArg, NoName, NoName, NoName)

\* What the loop history records: the events of the macro-step in flight, the pc
\* at the last macro-step boundary, the pc and registers when pause() returned
\* (until resume()), and how far a stop() request has got.
NoMark == [set |-> FALSE]
Mark(pc_, regs_) == [set |-> TRUE, pc |-> pc_, regs |-> regs_]
LoopHist0 == [ev |-> << >>, bpc |-> 0, pause |-> NoMark, stop |-> "none"]

(***************************************************************************)
(* Init: N64Emulator.__init__                                              *)
(***************************************************************************)
Init ==
  /\ ram = Memory_init
  /\ rom = NoRom
  /\ regs = CPU_init.regs
  /\ pc = CPU_init.pc
  /\ cp0 = CPU_init.cp0
  /\ rsp_regs = RSP_reset
  /\ framebuffer = RDP_init
  /\ audio_buffer = << >>
  /\ running = FALSE
  /\ paused = FALSE
  /\ files = [s \in Slots |-> NoFile]
  /\ lpos = "idle"
  /\ instr = 0
  /\ lastOp = Call("init")
  /\ err = "none"
  /\ ret = NoRet
  /\ steps = 0
  /\ hist = LoopHist0

(***************************************************************************)
(* Calls made one at a time.                                               *)
(***************************************************************************)
\* N64Emulator.load_rom(filepath)
LoadRom(images) ==
  \E data \in images :
    /\ rom' = load_cartridge(ensure_big_endian(data))
    /\ lastOp' = Call("load_rom")
    /\ err' = "none"
    /\ ret' = NoRet
    /\ UNCHANGED << ram, regs, pc, cp0, rsp_regs, framebuffer, audio_buffer,
                    control, files, loopvars, steps >>

\* N64Emulator.reset()
Reset ==
  LET r == Emu_reset(cp0, framebuffer)
  IN /\ regs' = r.cpu.regs
     /\ pc' = r.cpu.pc
     /\ cp0' = r.cpu.cp0
     /\ rsp_regs' = r.rsp_regs
     /\ framebuffer' = r.framebuffer
     /\ audio_buffer' = r.audio_buffer
     /\ lastOp' = Call("reset")
     /\ err' = "none"
     /\ ret' = NoRet
     /\ UNCHANGED << ram, rom, control, files, loopvars, steps >>

\* Memory.reset()
MemoryReset ==
  /\ ram' = Memory_reset(ram)
  /\ lastOp' = Call("memory_reset")
  /\ err' = "none"
  /\ ret' = NoRet
  /\ UNCHANGED << rom, regs, pc, cp0, rsp_regs, framebuffer, audio_buffer,
                  control, files, loopvars, steps >>

\* VR4300CPU.execute_next_instruction(), called once
Step ==
  /\ steps < MaxSteps
  /\ LET r == execute_next_instruction(ram, rom, pc)
     IN /\ pc' = r.pc
        /\ err' = r.err
  /\ steps' = steps + 1
  /\ lastOp' = Op("step", pc, NoArg, NoName, NoName, NoName)
  /\ ret' = NoRet
  /\ UNCHANGED << ram, rom, regs, cp0, rsp_regs, framebuffer, audio_buffer,
                  control, files, loopvars >>

\* Memory.read32(address)
Read32(addrs) ==
  \E a \in addrs :
    LET r == read32(ram, rom, a)
    IN /\ ret' = r.val
       /\ err' = r.err
       /\ lastOp' = Op("read32", a, NoArg, NoName, NoName, NoName)
       /\ UNCHANGED << machine, control, files, loopvars, steps >>

\* Memory.write32(address, value)
Write32(addrs, words) ==
  \E a \in addrs, v \in words :
    LET r == write32(ram, a, v)
    IN /\ ram' = r.ram
       /\ err' = r.err
       /\ ret' = NoRet
       /\ lastOp' = Op("write32", a, v, NoName, NoName, NoName)
       /\ UNCHANGED << rom, regs, pc, cp0, rsp_regs, framebuffer, audio_buffer,
                       control, files, loopvars, steps >>

\* N64Emulator.apply_cheat(address, value)
ApplyCheat(addrs, words) ==
  \E a \in addrs, v \in words :
    LET r == apply_cheat(ram, a, v)
    IN /\ ram' = r.ram
       /\ err' = r.err
       /\ ret' = NoRet
       /\ lastOp' = Op("apply_cheat", a, v, NoName, NoName, NoName)
       /\ UNCHANGED << rom, regs, pc, cp0, rsp_regs, framebuffer, audio_buffer,
                       control, files, loopvars, steps >>

\* N64Emulator.save_state(slot_name); at records where the loop stands
SaveState ==
  \E s \in Slots :
    /\ files' = [files EXCEPT ![s] =
         File(save_state(regs, pc, cp0, rsp_regs, framebuffer, audio_buffer, ram))]
    /\ lastOp' = Op("save_state", NoArg, NoArg, s, NoName, NoName)
    /\ err' = "none"
    /\ ret' = NoRet
    /\ UNCHANGED << machine, control, loopvars, steps >>

\* N64Emulator.load_state(slot_name)
LoadState(variants) ==
  \E s \in Slots, v \in variants :
    LET prev == IF lastOp.name = "save_state" /\ lastOp.slot = s
                  THEN "save_state" ELSE "other"
        cur == [regs |-> regs, pc |-> pc, cp0 |-> cp0, rsp_regs |-> rsp_regs,
                framebuffer |-> framebuffer, audio_buffer |-> audio_buffer,
                ram |-> ram]
    IN /\ lastOp' = Op("load_state", NoArg, NoArg, s, v, prev)
       /\ ret' = NoRet
       /\ UNCHANGED << rom, control, files, loopvars, steps >>
       /\ IF ~files[s].exists
            THEN /\ err' = "FileNotFoundError"
                 /\ UNCHANGED << ram, regs, pc, cp0, rsp_regs, framebuffer,
                                 audio_buffer >>
          ELSE IF ~ReadFile(files[s].state, v).ok
            THEN /\ err' = "UnpicklingError"
                 /\ UNCHANGED << ram, regs, pc, cp0, rsp_regs, framebuffer,
                                 audio_buffer >>
          ELSE LET r == load_state(cur, ReadFile(files[s].state, v))
               IN /\ regs' = r.regs
                  /\ pc' = r.pc
                  /\ cp0' = r.cp0
                  /\ rsp_regs' = r.rsp_regs
                  /\ framebuffer' = r.framebuffer
                  /\ audio_buffer' = r.audio_buffer
                  /\ ram' = r.ram
                  /\ err' = r.err

(***************************************************************************)
(* N64Emulator.start() run in a context of its own, one statement at a     *)
(* time, and pause(), resume(), stop() called from another context.        *)
(*   lpos: "idle" (start() not called), "set_running", "set_paused",       *)
(*   "while", "if_paused", "fetch", "advance", "execute", "rsp", "rdp",    *)
(*   "input", "audio", "done" (start() returned), "crashed" (it raised).   *)
(***************************************************************************)
\* after with the RDP polled before the RSP.
after_rdp_first(pos) ==
  CASE pos = "set_running" -> "set_paused"
    [] pos = "set_paused" -> "while"
    [] pos = "fetch" -> "advance"
    [] pos = "advance" -> "execute"
    [] pos = "execute" -> "rdp"
    [] pos = "rdp" -> "rsp"
    [] pos = "rsp" -> "input"
    [] pos = "input" -> "audio"
    [] pos = "audio" -> "while"

\* The statement that follows a statement of start().
after(pos) ==
  CASE pos = "set_running" -> "set_paused"
    [] pos = "set_paused" -> "while"
    [] pos = "fetch" -> "advance"
    [] pos = "advance" -> "execute"
    [] pos = "execute" -> "rsp"
    [] pos = "rsp" -> "rdp"
    [] pos = "rdp" -> "input"
    [] pos = "input" -> "audio"
    [] pos = "audio" -> "while"

\* The events of one macro-step, in the order of the loop body.
MacroStep == << "cpu", "rsp", "rdp", "input", "audio" >>

\* The event log after one more event: a log that holds a whole macro-step
\* starts again.
Logged(ev, e) == IF ev = MacroStep THEN << e >> ELSE Append(ev, e)

\* start() is called
StartCall ==
  /\ lpos = "idle"
  /\ lpos' = "set_running"
  /\ lastOp' = Call("start")
  /\ UNCHANGED << machine, control, files, instr, err, ret, steps, hist >>

\* self.running = True
LoopSetRunning ==
  /\ lpos = "set_running"
  /\ running' = TRUE
  /\ lpos' = after(lpos)
  /\ UNCHANGED << machine, paused, files, instr, lastOp, err, ret, steps, hist >>

\* self.paused = False
LoopSetPaused ==
  /\ lpos = "set_paused"
  /\ paused' = FALSE
  /\ lpos' = after(lpos)
  /\ UNCHANGED << machine, running, files, instr, lastOp, err, ret, steps, hist >>

\* while self.running: the macro-step boundary
LoopWhile ==
  /\ lpos = "while"
  /\ lpos' = IF running THEN "if_paused" ELSE "done"
  /\ hist' = [hist EXCEPT !.bpc = pc,
                          !.stop = IF @ = "requested" THEN "boundary" ELSE @]
  /\ UNCHANGED << machine, control, files, instr, lastOp, err, ret, steps >>

\* if self.paused: continue
LoopIfPaused ==
  /\ lpos = "if_paused"
  /\ lpos' = IF paused THEN "while" ELSE "fetch"
  /\ UNCHANGED << machine, control, files, instr, lastOp, err, ret, steps, hist >>

\* execute_next_instruction: instr = self.mem.read32(self.pc)
LoopFetch ==
  /\ lpos = "fetch"
  /\ steps < MaxSteps
  /\ LET r == read32(ram, rom, pc)
     IN IF r.err # "none"
          THEN /\ lpos' = "crashed"
               /\ UNCHANGED instr
          ELSE /\ lpos' = after(lpos)
               /\ instr' = r.val
  /\ steps' = steps + 1
  /\ hist' = [hist EXCEPT !.ev = Logged(@, "cpu")]
  /\ UNCHANGED << machine, control, files, lastOp, err, ret >>

\* execute_next_instruction: self.pc += 4
LoopAdvance ==
  /\ lpos = "advance"
  /\ pc' = pc + 4
  /\ lpos' = after(lpos)
  /\ UNCHANGED << ram, rom, regs, cp0, rsp_regs, framebuffer, audio_buffer,
                  control, files, instr, lastOp, err, ret, steps, hist >>

\* execute_next_instruction: self._execute(instr)
LoopExecute ==
  /\ lpos = "execute"
  /\ pc' = execute(pc, instr)
  /\ lpos' = after(lpos)
  /\ UNCHANGED << ram, rom, regs, cp0, rsp_regs, framebuffer, audio_buffer,
                  control, files, instr, lastOp, err, ret, steps, hist >>

\* self.rsp.process_tasks()
LoopRsp ==
  /\ lpos = "rsp"
  /\ lpos' = after(lpos)
  /\ hist' = [hist EXCEPT !.ev = Logged(@, "rsp")]
  /\ UNCHANGED << machine, control, files, instr, lastOp, err, ret, steps >>

\* self.rdp.render_if_ready()
LoopRdp ==
  /\ lpos = "rdp"
  /\ lpos' = after(lpos)
  /\ hist' = [hist EXCEPT !.ev = Logged(@, "rdp")]
  /\ UNCHANGED << machine, control, files, instr, lastOp, err, ret, steps >>

\* self.input.poll_inputs()
LoopInput ==
  /\ lpos = "input"
  /\ lpos' = after(lpos)
  /\ hist' = [hist EXCEPT !.ev = Logged(@, "input")]
  /\ UNCHANGED << machine, control, files, instr, lastOp, err, ret, steps >>

\* self.audio.update_audio()
LoopAudio ==
  /\ lpos = "audio"
  /\ lpos' = after(lpos)
  /\ hist' = [hist EXCEPT !.ev = Logged(@, "audio")]
  /\ UNCHANGED << machine, control, files, instr, lastOp, err, ret, steps >>

\* N64Emulator.pause(), once start() has been called
Pause ==
  /\ lpos # "idle"
  /\ paused' = TRUE
  /\ hist' = [hist EXCEPT !.pause = Mark(pc, regs)]
  /\ lastOp' = Call("pause")
  /\ UNCHANGED << machine, running, files, lpos, instr, err, ret, steps >>

\* N64Emulator.resume(), once start() has been called
Resume ==
  /\ lpos # "idle"
  /\ paused' = FALSE
  /\ hist' = [hist EXCEPT !.pause = NoMark]
  /\ lastOp' = Call("resume")
  /\ UNCHANGED << machine, running, files, lpos, instr, err, ret, steps >>

\* N64Emulator.stop(), once start() has been called
Stop ==
  /\ lpos # "idle"
  /\ running' = FALSE
  /\ hist' = [hist EXCEPT !.stop = IF @ = "none" THEN "requested" ELSE @]
  /\ lastOp' = Call("stop")
  /\ UNCHANGED << machine, paused, files, lpos, instr, err, ret, steps >>

(***************************************************************************)
(* Spec: the emulator driven by one caller, one call at a time.            *)
(***************************************************************************)
Next ==
  \/ LoadRom({RomA})
  \/ Reset
  \/ MemoryReset
  \/ Step
  \/ ApplyCheat({0}, {JumpWord, Jump(3, 2), TestWord})
  \/ Write32({CartridgeBase}, {TestWord})
  \/ SaveState
  \/ LoadState(Variants)

Spec == Init /\ [][Next]_vars

(***************************************************************************)
(* SpecMem: the Memory driven by one caller, with the snapshots that       *)
(* replace its RAM.                                                        *)
(***************************************************************************)
NextMem ==
  \/ LoadRom(Roms)
  \/ Read32(ReadAddrs)
  \/ Write32(WriteAddrs \ {RamSize - 2}, {TestWord})
  \/ MemoryReset
  \/ SaveState
  \/ LoadState({"intact", "short_ram"})

SpecMem == Init /\ [][NextMem]_vars

(***************************************************************************)
(* SpecLoop: start() in its own context; pause(), resume(), stop(),        *)
(* save_state(), apply_cheat() and load_rom() called from another.         *)
(***************************************************************************)
NextLoop ==
  \/ StartCall
  \/ LoopSetRunning
  \/ LoopSetPaused
  \/ LoopWhile
  \/ LoopIfPaused
  \/ LoopFetch
  \/ LoopAdvance
  \/ LoopExecute
  \/ LoopRsp
  \/ LoopRdp
  \/ LoopInput
  \/ LoopAudio
  \/ Pause
  \/ Resume
  \/ Stop
  \/ SaveState
  \/ ApplyCheat({0}, {JumpWord})
  \/ LoadRom({RomA})

SpecLoop == Init /\ [][NextLoop]_vars

(***************************************************************************)
(* SpecRam: the RAM written by write32 and apply_cheat at aligned and      *)
(* unaligned addresses, inside and outside [0, ramSize).                   *)
(***************************************************************************)
\* The first and the last word of the RAM, its last three byte offsets.
RamAddrs == { 0, RamSize - 4, RamSize - 3, RamSize - 2, RamSize - 1 }

\* An address of the RAM and addresses outside it: the first address after the
\* RAM, the last address below the cartridge, the first of the cartridge.
CheatAddrs == { RamSize - 4, RamSize, CartridgeBase - 4, CartridgeBase }

NextRam ==
  \/ LoadRom({RomB})
  \/ Read32({1, RamSize - 4, CartridgeBase, CartridgeBase + 1})
  \/ Write32(RamAddrs, {TestWord})
  \/ ApplyCheat(CheatAddrs, {TestWord})
  \/ MemoryReset

SpecRam == Init /\ [][NextRam]_vars

(***************************************************************************)
(* SpecCpu: execute_next_instruction applied from the values of the pc in  *)
(* PcInputs, over a RAM and a cartridge that hold jumps.                   *)
(***************************************************************************)
InitCpu ==
  /\ ram = Memory_init
  /\ rom = NoRom
  /\ regs = CPU_init.regs
  /\ pc \in PcInputs
  /\ cp0 = CPU_init.cp0
  /\ rsp_regs = RSP_reset
  /\ framebuffer = RDP_init
  /\ audio_buffer = << >>
  /\ running = FALSE
  /\ paused = FALSE
  /\ files = [s \in Slots |-> NoFile]
  /\ lpos = "idle"
  /\ instr = 0
  /\ lastOp = Call("init")
  /\ err = "none"
  /\ ret = NoRet
  /\ steps = 0
  /\ hist = LoopHist0

NextCpu ==
  \/ LoadRom({RomSeg})
  \/ ApplyCheat({0}, {Jump(2, 2)})
  \/ Step
  \/ Reset

SpecCpu == InitCpu /\ [][NextCpu]_vars

(***************************************************************************)
(* Definitions the claims use.                                             *)
(***************************************************************************)
\* Steps of the trace compared after a save_state and load_state.
TraceLen == 3

\* The (pc, registers, RAM) states, and the exception if any, of the next n
\* calls of execute_next_instruction from a machine state.
RECURSIVE Trace(_, _, _, _, _)
Trace(ram_, rom_, regs_, pc_, n) ==
  IF n = 0 THEN << >>
  ELSE LET r == execute_next_instruction(ram_, rom_, pc_)
       IN << [pc |-> r.pc, regs |-> regs_, ram |-> ram_, err |-> r.err] >>
          \o (IF r.err # "none" THEN << >>
              ELSE Trace(ram_, rom_, regs_, r.pc, n - 1))

\* The address is a multiple of 4.
Aligned(a) == a % 4 = 0

\* The address lies in the RAM region [0, ramSize).
InRam(a) == a >= 0 /\ a < RamSize

\* The address lies in the loaded ROM [cartridgeBase, cartridgeBase + romSize).
InRom(rom_, a) ==
  rom_.has /\ a >= CartridgeBase /\ a < CartridgeBase + Len(rom_.data)

\* The last call raised an exception.
Failed == err # "none"

\* The big-endian value of four bytes.
BigEndian4(b) ==
  ((b[1] * ByteMod + b[2]) * ByteMod + b[3]) * ByteMod + b[4]

(***************************************************************************)
(* C1 (refuted by the code).  A load_state that fails leaves every         *)
(* component untouched: the CPU registers, pc, cp0, the RSP registers, the *)
(* RDP framebuffer, the audio buffer and the RAM are what they were before *)
(* the call.                                                               *)
(***************************************************************************)
C1_FailedLoadLeavesMachineUntouched ==
  [][ (lastOp'.name = "load_state" /\ err' # "none")
        => UNCHANGED << regs, pc, cp0, rsp_regs, framebuffer, audio_buffer, ram >>
    ]_vars

(***************************************************************************)
(* C2.  save_state followed at once by load_state of the same snapshot     *)
(* succeeds and leaves a machine whose next TraceLen instruction steps go  *)
(* through the same (pc, registers, RAM) states as those of the machine    *)
(* before the two calls.                                                   *)
(***************************************************************************)
C2_SaveLoadKeepsTrace ==
  [][ (/\ lastOp.name = "save_state"
       /\ lastOp'.name = "load_state"
       /\ lastOp'.slot = lastOp.slot
       /\ lastOp'.variant = "intact")
        => /\ err' = "none"
           /\ Trace(ram', rom', regs', pc', TraceLen)
                = Trace(ram, rom, regs, pc, TraceLen)
    ]_vars

\* A snapshot has just been saved and loaded back, on a machine that has run
\* (pc is not the one of construction) and whose RAM holds an instruction.
C2_Witness ==
  /\ lastOp.name = "load_state"
  /\ lastOp.prev = "save_state"
  /\ lastOp.variant = "intact"
  /\ err = "none"
  /\ pc # 0
  /\ ram # Memory_init
  /\ rom.has

(***************************************************************************)
(* C3 (refuted by the code).  From the moment pause() returns until        *)
(* resume() is called, pc and the 32 registers keep the values they had    *)
(* when pause() returned.                                                  *)
(***************************************************************************)
C3_NothingRunsWhilePaused ==
  hist.pause.set => (pc = hist.pause.pc /\ regs = hist.pause.regs)

(***************************************************************************)
(* C4 (refuted by the code).  Once the loop has passed the first           *)
(* macro-step boundary that follows a stop() request, it has returned: it  *)
(* begins no macro-step after that boundary.                               *)
(***************************************************************************)
C4_NoMacroStepAfterStop ==
  hist.stop = "boundary" => lpos = "done"

(***************************************************************************)
(* C5 (refuted by the code).  A snapshot taken by save_state while the     *)
(* loop runs holds the pc of a macro-step boundary: the pc at the boundary *)
(* before the macro-step in flight, or the pc that macro-step ends with.   *)
(***************************************************************************)
C5_SnapshotAtBoundary ==
  [][ \A s \in Slots :
        (lastOp'.name = "save_state" /\ lastOp'.slot = s /\ files'[s] # files[s])
          => files'[s].state.cpu.pc \in
               { hist.bpc,
                 CASE lpos = "advance" -> execute(pc + 4, instr)
                   [] lpos = "execute" -> execute(pc, instr)
                   [] OTHER -> pc }
    ]_vars

(***************************************************************************)
(* C6.  The events of the running loop come in the order CPU step, RSP     *)
(* process_tasks, RDP render_if_ready, input polling, audio update, and a  *)
(* CPU step begins only when the macro-step before it is complete: the     *)
(* event log is always the beginning of one macro-step.                    *)
(***************************************************************************)
C6_MacroStepOrder ==
  /\ Len(hist.ev) <= Len(MacroStep)
  /\ hist.ev = SubSeq(MacroStep, 1, Len(hist.ev))

\* A second macro-step has begun after a complete first one.
C6_Witness ==
  /\ hist.ev = << "cpu", "rsp" >>
  /\ steps = 2

(***************************************************************************)
(* C7.  General register 0 is zero in every reachable state.               *)
(***************************************************************************)
C7_RegisterZeroIsZero == regs[0] = 0

\* A snapshot saved after a reset, an instruction step and an apply_cheat has
\* been loaded back.
C7_Witness ==
  /\ lastOp.name = "load_state"
  /\ lastOp.variant = "intact"
  /\ err = "none"
  /\ pc = EntryVector + 4
  /\ steps >= 1
  /\ ram # Memory_init

(***************************************************************************)
(* C8 (refuted by the code).  A read32 or write32 of an address that is    *)
(* neither in the RAM nor in the loaded ROM fails.                         *)
(***************************************************************************)
C8_UnmappedAccessFails ==
  (/\ lastOp.name \in { "read32", "write32" }
   /\ ~InRam(lastOp.addr)
   /\ ~InRom(rom, lastOp.addr))
    => Failed

(***************************************************************************)
(* C9 (refuted by the code).  After write32(a, v) of an aligned address    *)
(* a < ramSize, read32(a) returns v, and the write has changed no RAM byte *)
(* outside [a, a+4).                                                       *)
(***************************************************************************)
C9_WriteThenRead ==
  [][ (lastOp'.name = "write32" /\ Aligned(lastOp'.addr) /\ InRam(lastOp'.addr))
        => /\ read32(ram', rom', lastOp'.addr)
                = [err |-> "none", val |-> lastOp'.val]
           /\ \A i \in 1..Len(ram) :
                (i <= lastOp'.addr \/ i > lastOp'.addr + 4)
                  => (i <= Len(ram') /\ ram'[i] = ram[i])
    ]_vars

Fetched == read32(ram, rom, pc)

\* The next state is that of a step which fetched a jump (opcode 2 or 3).
JumpStepped ==
  /\ lastOp'.name = "step"
  /\ lastOp'.addr = pc
  /\ steps' = steps + 1
  /\ err' = "none"
  /\ Fetched.err = "none"
  /\ Opcode(Fetched.val) \in {2, 3}

\* The first address of the segment an address lies in (the segments of a pc
\* that has left the address space included).
SegmentOf(a) == (((a \div SegSize) % 16) * SegSize)

(***************************************************************************)
(* C11 (as stated, refuted).  A step that starts at pc = p and fetches a   *)
(* jump of raw target t ends with pc = (segment of p) + 4 * t, for every   *)
(* p, the last word of a segment included.                                 *)
(***************************************************************************)
C11_JumpFromStartSegment ==
  [][JumpStepped => pc' = SegmentOf(pc) + 4 * Target(Fetched.val)]_vars

(***************************************************************************)
(* C11 (amended).  A step that starts at pc = p and fetches a jump of raw  *)
(* target t ends with pc = (segment of p + 4) + 4 * t: the segment is that *)
(* of the advanced counter.                                                *)
(***************************************************************************)
C11_JumpFromAdvancedSegment ==
  [][JumpStepped => pc' = SegmentOf(pc + 4) + 4 * Target(Fetched.val)]_vars

\* A jump fetched in the last word of the cartridge's segment has been stepped
\* and the pc is in the next segment.
C11_Witness ==
  /\ lastOp.name = "step"
  /\ lastOp.addr = CartridgeBase + SegSize - 4
  /\ err = "none"
  /\ pc = CartridgeBase + SegSize + 4 * (TargetMod - 1)

(***************************************************************************)
(* C12 (refuted by the code).  After the emulator's reset(), from any      *)
(* reachable state, the pc is the entry vector, the 32 registers are zero, *)
(* every byte of the RAM is zero and the ROM is what it was before the     *)
(* call.                                                                   *)
(***************************************************************************)
C12_ResetState ==
  [][lastOp'.name = "reset" =>
       /\ pc' = EntryVector
       /\ \A i \in DOMAIN regs' : regs'[i] = 0
       /\ \A i \in DOMAIN ram' : ram'[i] = 0
       /\ rom' = rom]_vars

(***************************************************************************)
(* C13 (refuted by the code).  apply_cheat(address, value) with an address *)
(* outside [0, ramSize) raises an exception and leaves the RAM as it was.  *)
(***************************************************************************)
C13_CheatOutsideRamFails ==
  [][lastOp'.name = "apply_cheat" /\ ~InRam(lastOp'.addr) =>
       err' # "none" /\ ram' = ram]_vars

\* The last call was a step that fetched a jump at lastOp.addr and raised
\* nothing (a step changes neither the RAM nor the ROM).
JumpJustStepped ==
  /\ lastOp.name = "step"
  /\ err = "none"
  /\ read32(ram, rom, lastOp.addr).err = "none"
  /\ Opcode(read32(ram, rom, lastOp.addr).val) \in {2, 3}

(***************************************************************************)
(* C14 (refuted by the code).  After a step that fetched a jump at address *)
(* p, the next step fetches the instruction at p + 4 (the delay slot), not *)
(* the instruction at the jump target.                                     *)
(***************************************************************************)
C14_DelaySlotFetched ==
  [][JumpJustStepped /\ lastOp'.name = "step" /\ steps' = steps + 1 =>
       lastOp'.addr = lastOp.addr + 4]_vars

(***************************************************************************)
(* C15.  No call other than load_rom changes the ROM: write32 (to a ROM    *)
(* address too), apply_cheat, a step, reset, Memory.reset, save_state and  *)
(* load_state leave every ROM byte as it was; and a write32 to an address  *)
(* of the loaded ROM raises nothing.                                       *)
(***************************************************************************)
C15_RomNeverWritten ==
  [][/\ lastOp'.name # "load_rom" => rom' = rom
     /\ lastOp'.name = "write32" /\ InRom(rom, lastOp'.addr) =>
          err' = "none" /\ ram' = ram]_vars

\* After a step, a write32 to the first address of the loaded cartridge has
\* returned and the cartridge is what was loaded.
C15_Witness ==
  /\ lastOp.name = "write32"
  /\ lastOp.addr = CartridgeBase
  /\ rom = Rom(RomA)
  /\ err = "none"
  /\ steps >= 1

(***************************************************************************)
(* C16.  The pc is a multiple of 4 in every reachable state: after the     *)
(* construction, reset, steps (jumps included), save_state and load_state. *)
(***************************************************************************)
C16_PcAligned == Aligned(pc)

\* A load_state has restored the pc that the one step taken, a jump to word 2
\* of the segment, had set.
C16_Witness ==
  /\ lastOp.name = "load_state"
  /\ lastOp.variant = "intact"
  /\ err = "none"
  /\ pc = 8
  /\ steps = 1

(***************************************************************************)
(* C17 (refuted by the code).  read32 and write32 raise an exception for   *)
(* every address that is not a multiple of 4, and such a write32 leaves    *)
(* the RAM as it was.                                                      *)
(***************************************************************************)
C17_UnalignedAccessFails ==
  [][lastOp'.name \in {"read32", "write32"} /\ ~Aligned(lastOp'.addr) =>
       err' # "none" /\ ram' = ram]_vars

(***************************************************************************)
(* C18 (refuted by the code).  The RAM has exactly ramSize bytes in every  *)
(* reachable state, whatever write32, apply_cheat and Memory.reset calls   *)
(* were made.                                                              *)
(***************************************************************************)
C18_RamLength == Len(ram) = RamSize

(***************************************************************************)
(* C19 (refuted by the code).  The pc is a 32-bit value in every reachable *)
(* state: 0 <= pc < 2^32.                                                  *)
(***************************************************************************)
C19_PcInWord == pc >= 0 /\ pc < WordMod

====
